---- MODULE Spec2Model ----
(***************************************************************************)
(* Scoring engine of jaimes-scoring-method (lib/domain/scoring.ts,         *)
(* lib/domain/templates.ts, lib/domain/types.ts), the home page that edits *)
(* a round (app/HomeClient.tsx), the storage it saves the round to, and   *)
(* the choice of a username at sign-in (lib/storage/ensureUsername.ts).   *)
(*                                                                         *)
(* Specifications.                                                         *)
(*  - Spec, HoleSpec, TallySpec: computeRoundSummary and the per-hole      *)
(*    helpers applied to families of rounds.                               *)
(*  - HomeSpec: the handlers of the page, each run to its end in one step. *)
(*  - LoadSpec: the page opened on a database left by an earlier session.  *)
(*  - SaveSpec: the autosave and finishRound split at their awaits.        *)
(*  - NameSpec, NameFairSpec: one call of ensureUsername.                  *)
(*                                                                         *)
(* Conventions.                                                            *)
(*  - An optional value (TypeScript `x?: T`, `T | null`, `T | undefined`)  *)
(*    is a sequence of length at most one: None is absent, Some(v) is v.   *)
(*  - Weights are fixed-point numbers in hundredths (100 is 1.0).          *)
(*  - Values produced by round1 are integers counting tenths (15 is 1.5).  *)
(*  - A quotient handed to a rounding function is passed as numerator and  *)
(*    denominator, so the rounding is computed exactly.                    *)
(***************************************************************************)
EXTENDS Integers, Sequences, FiniteSets

VARIABLES
    round,        \* RoundState shown by the page
    summary,      \* computeRoundSummary(round), once rendered
    isCompleted,  \* the round is finished
    hydrated,     \* hydrated.current: the page has loaded from the database
    saveTimer,    \* saveTimer.current: handle of the autosave timeout set last
    timers,       \* the timeouts of window.setTimeout that are pending
    roundId,      \* id of the stored round the page edits
    courseId,     \* id of the template the round was started from
    templates,    \* the templates the page lists
    db,           \* tables rounds and round_holes: one record per round id
    courses,      \* tables courses and course_holes: one record per course id
    storedBefore, \* number of rounds and courses stored before the page opened
    saves,        \* the calls of upsertRound in flight, oldest first
    finishing,    \* finishRound awaits the answer to its update
    shelved,      \* history: the holes the round had when it was cut to nine
    edits,        \* history: number of hole entries made so far
    pc,           \* ensureUsername: where the call stands
    tries,        \* ensureUsername: the loop counter i, candidates tried so far
    profile,      \* table profiles: the username of the user's row
    upserts,      \* history: the candidates ensureUsername sent to upsert
    result        \* ensureUsername: what the call returned or threw

vars == <<round, summary, isCompleted, hydrated, saveTimer, timers, roundId, courseId,
          templates, db, courses, storedBefore, saves, finishing, shelved, edits,
          pc, tries, profile, upserts, result>>

\* the page state next to round and summary
pageVars == <<isCompleted, hydrated, saveTimer, timers, roundId, courseId, templates>>

dbVars == <<db, courses>>

historyVars == <<shelved, edits>>

\* the requests of the page that are in flight
awaitVars == <<saves, finishing>>

\* the state of ensureUsername
nameVars == <<pc, tries, profile, upserts, result>>

\* what a handler of the page, run as one step, leaves alone
otherVars == <<storedBefore, awaitVars, nameVars>>

None == <<>>

Some(v) == <<v>>

----
(* Types, lib/domain/types.ts                                              *)

Levels == {"Bogey Golf", "Break 80", "Scratch"}

Pars == {3, 4, 5}

HoleCounts == {9, 18}

MaxStrokeIndex == 18

----
(* Numeric helpers                                                         *)

\* Math.round(num / den) for den > 0: the nearest integer, halves upwards.
MathRound(num, den) == (2 * num + den) \div (2 * den)

\* round1(num / den): Math.round(x * 10) / 10, as a count of tenths.
round1(num, den) == MathRound(10 * num, den)

\* Math.max(a, b)
MathMax(a, b) == IF a >= b THEN a ELSE b

----
(* lib/domain/templates.ts                                                 *)

NoOopsies == [lostBall |-> 0, bunker |-> 0, duffed |-> 0]

\* mutant of DefaultHole: the stroke index is the 0-based position
DefaultHoleZeroBased(i) ==
    [n |-> i + 1,
     par |-> 4,
     strokeIndex |-> i % 18,
     strokes |-> None,
     putts |-> None,
     missedPutts6ft |-> None,
     reachedSD |-> None,
     teeShotResult |-> None,
     oopsies |-> NoOopsies]

\* the hole makeDefaultHoles builds at 0-based position i
DefaultHole(i) ==
    [n |-> i + 1,
     par |-> 4,
     strokeIndex |-> (i % 18) + 1,
     strokes |-> None,
     putts |-> None,
     missedPutts6ft |-> None,
     reachedSD |-> None,
     teeShotResult |-> None,
     oopsies |-> NoOopsies]

makeDefaultHoles(count) == [k \in 1..count |-> DefaultHole(k - 1)]

\* Array.prototype.slice(0, count)
FirstN(s, count) == SubSeq(s, 1, IF count <= Len(s) THEN count ELSE Len(s))

\* the course data of a hole: { n, par, strokeIndex }
CourseHole(h) == [n |-> h.n, par |-> h.par, strokeIndex |-> h.strokeIndex]

\* a hole with the course data of h and every entry field emptied
ClearedHole(h) ==
    [n |-> h.n,
     par |-> h.par,
     strokeIndex |-> h.strokeIndex,
     strokes |-> None,
     putts |-> None,
     missedPutts6ft |-> None,
     reachedSD |-> None,
     teeShotResult |-> None,
     oopsies |-> NoOopsies]

\* mutant of templateFromRound: the holes are those of a new course
templateFromRoundDefaults(r, name, id) ==
    [id |-> id,
     name |-> name,
     holesCount |-> r.holesCount,
     holes |-> LET used == makeDefaultHoles(r.holesCount)
               IN  [k \in 1..Len(used) |-> CourseHole(used[k])]]

\* id is the value uid() returned; createdAt, a time stamp no code reads
\* back, is left out
templateFromRound(r, name, id) ==
    [id |-> id,
     name |-> name,
     holesCount |-> r.holesCount,
     holes |-> LET used == FirstN(r.holes, r.holesCount)
               IN  [k \in 1..Len(used) |-> CourseHole(used[k])]]

\* mutant of applyTemplateToNewRound: the template is read one position late
applyTemplateToNewRoundShifted(template, baseRound) ==
    LET holesCount == template.holesCount
        defaults == makeDefaultHoles(holesCount)
    IN  [holesCount |-> holesCount,
         level |-> baseRound.level,
         scoringDistance |-> baseRound.scoringDistance,
         weights |-> baseRound.weights,
         holes |-> [k \in 1..holesCount |->
                      LET h == defaults[k]
                          hasSrc == k + 1 <= Len(template.holes)
                      IN  [ClearedHole(h) EXCEPT
                             !.n = k,
                             !.par = IF hasSrc THEN template.holes[k + 1].par ELSE h.par,
                             !.strokeIndex = IF hasSrc THEN template.holes[k + 1].strokeIndex
                                             ELSE h.strokeIndex]]]

\* baseRound is a RoundState without holes and holesCount
applyTemplateToNewRound(template, baseRound) ==
    LET holesCount == template.holesCount
        defaults == makeDefaultHoles(holesCount)
    IN  [holesCount |-> holesCount,
         level |-> baseRound.level,
         scoringDistance |-> baseRound.scoringDistance,
         weights |-> baseRound.weights,
         holes |-> [k \in 1..holesCount |->
                      LET h == defaults[k]
                          hasSrc == k <= Len(template.holes)
                      IN  [ClearedHole(h) EXCEPT
                             !.n = k,
                             !.par = IF hasSrc THEN template.holes[k].par ELSE h.par,
                             !.strokeIndex = IF hasSrc THEN template.holes[k].strokeIndex
                                             ELSE h.strokeIndex]]]

\* mutant of resetRoundKeepCourse: the strokes survive the reset
resetRoundKeepCourseKeepStrokes(r) ==
    [r EXCEPT !.holes = LET used == FirstN(r.holes, r.holesCount)
                        IN  [k \in 1..Len(used) |->
                               [ClearedHole(used[k]) EXCEPT !.strokes = used[k].strokes]]]

resetRoundKeepCourse(r) ==
    [r EXCEPT !.holes = LET used == FirstN(r.holes, r.holesCount)
                        IN  [k \in 1..Len(used) |-> ClearedHole(used[k])]]

----
(* lib/domain/scoring.ts                                                   *)

\* mutant of allowedShotsToSD: the Break 80 boundary is off by one
allowedShotsToSDOffByOne(level, h) ==
    IF h.par = 3 THEN None
    ELSE IF level = "Bogey Golf" THEN Some(2)
    ELSE IF level = "Break 80" THEN (IF h.strokeIndex > 10 THEN Some(1) ELSE Some(2))
    ELSE Some(1)

allowedShotsToSD(level, h) ==
    IF h.par = 3 THEN None
    ELSE IF level = "Bogey Golf" THEN Some(2)
    ELSE IF level = "Break 80" THEN (IF h.strokeIndex >= 10 THEN Some(1) ELSE Some(2))
    ELSE Some(1)

\* mutant of targetAfterSD: the par-3 boundary is off by one
targetAfterSDOffByOne(h) ==
    IF h.par = 3 THEN (IF h.strokeIndex < 9 THEN 4 ELSE 3)
    ELSE 3

targetAfterSD(h) ==
    IF h.par = 3 THEN (IF h.strokeIndex <= 9 THEN 4 ELSE 3)
    ELSE 3

\* mutant of puttingLost: the floor at zero is forgotten
puttingLostUnclamped(putts) ==
    IF putts = None THEN 0
    ELSE putts[1] - 2

puttingLost(putts) ==
    IF putts = None THEN 0
    ELSE MathMax(0, putts[1] - 2)

\* mutant of holeStrokesLost: a lost ball is weighted like a bunker shot
holeStrokesLostWeightedBall(h, w) ==
    LET lostBallLost == h.oopsies.lostBall * 2 * w.bunker
        other == h.oopsies.bunker * w.bunker + h.oopsies.duffed * w.duffed
        puttLost == puttingLost(h.putts) * 100
    IN  round1(lostBallLost + other + puttLost, 100)

\* mutant of holeStrokesLost: only the first duffed shot is charged
holeStrokesLostFirstDuff(h, w) ==
    LET lostBallLost == h.oopsies.lostBall * 200
        other == h.oopsies.bunker * w.bunker
                 + (IF h.oopsies.duffed = 1 THEN w.duffed ELSE 0)
        puttLost == puttingLost(h.putts) * 100
    IN  round1(lostBallLost + other + puttLost, 100)

\* in tenths; the sum under round1 is in hundredths
holeStrokesLost(h, w) ==
    LET lostBallLost == h.oopsies.lostBall * 200
        other == h.oopsies.bunker * w.bunker + h.oopsies.duffed * w.duffed
        puttLost == puttingLost(h.putts) * 100
    IN  round1(lostBallLost + other + puttLost, 100)

\* mutant of par3Equivalent: a par 3 has no par-3 equivalent
par3EquivalentNoPar3(level, h) ==
    IF h.strokes = None THEN None
    ELSE LET tgt == targetAfterSD(h)
         IN  IF h.par = 3 THEN None
             ELSE LET allow == allowedShotsToSD(level, h)
                  IN  IF allow = None THEN None
                      ELSE Some(h.strokes[1] - allow[1] <= tgt)

\* mutant of par3Equivalent: the comparisons are strict
par3EquivalentStrict(level, h) ==
    IF h.strokes = None THEN None
    ELSE LET tgt == targetAfterSD(h)
         IN  IF h.par = 3 THEN Some(h.strokes[1] < tgt)
             ELSE LET allow == allowedShotsToSD(level, h)
                  IN  IF allow = None THEN None
                      ELSE Some(h.strokes[1] - allow[1] < tgt)

par3Equivalent(level, h) ==
    IF h.strokes = None THEN None
    ELSE LET tgt == targetAfterSD(h)
         IN  IF h.par = 3 THEN Some(h.strokes[1] <= tgt)
             ELSE LET allow == allowedShotsToSD(level, h)
                  IN  IF allow = None THEN None
                      ELSE Some(h.strokes[1] - allow[1] <= tgt)

\* mutant of UsedHoles: the slice is forgotten and every stored hole counts
UsedHolesAll(r) == r.holes

\* round.holes.slice(0, round.holesCount)
UsedHoles(r) ==
    SubSeq(r.holes, 1, IF r.holesCount <= Len(r.holes) THEN r.holesCount ELSE Len(r.holes))

\* the accumulators before the loop (lines 50-74)
ZeroTotals ==
    [totalStrokes |-> 0, totalPar |-> 0, holesWithStrokes |-> 0,
     sdEligible |-> 0, sdMade |-> 0,
     npirEligible |-> 0, npirMade |-> 0,
     p3Eligible |-> 0, p3Made |-> 0,
     puttsEntered |-> 0, puttsTotal |-> 0, puttsLostTotal |-> 0,
     missedPutts6ftTotal |-> 0, holesWithPutts |-> 0, holesWithMissedPutts6ft |-> 0,
     teeShotsFairwayTotal |-> 0, teeShotsTroubleTotal |-> 0,
     strokesLostTotal |-> 0]

\* 1 when the condition holds, else 0 (a guarded `+= 1`)
Inc(c) == IF c THEN 1 ELSE 0

\* mutant of StrokesBlock: an unset SD box counts as reached
StrokesBlockUnsetMade(t, h, level) ==
    IF h.strokes = None THEN t
    ELSE LET sdHole == h.par # 3
             p3 == par3Equivalent(level, h)
         IN  [t EXCEPT
                !.holesWithStrokes = @ + 1,
                !.totalStrokes = @ + h.strokes[1],
                !.sdEligible = @ + Inc(sdHole),
                !.sdMade = @ + Inc(sdHole /\ h.reachedSD # Some(FALSE)),
                !.npirEligible = @ + Inc(sdHole),
                !.npirMade = @ + Inc(sdHole /\ h.reachedSD = Some(FALSE)),
                !.p3Eligible = @ + Inc(p3 # None),
                !.p3Made = @ + Inc(p3 = Some(TRUE))]

\* mutant of StrokesBlock: only an unticked SD box counts for NPIR
StrokesBlockNpirTicked(t, h, level) ==
    IF h.strokes = None THEN t
    ELSE LET sdHole == h.par # 3
             p3 == par3Equivalent(level, h)
         IN  [t EXCEPT
                !.holesWithStrokes = @ + 1,
                !.totalStrokes = @ + h.strokes[1],
                !.sdEligible = @ + Inc(sdHole),
                !.sdMade = @ + Inc(sdHole /\ h.reachedSD = Some(TRUE)),
                !.npirEligible = @ + Inc(sdHole),
                !.npirMade = @ + Inc(sdHole /\ h.reachedSD = Some(FALSE)),
                !.p3Eligible = @ + Inc(p3 # None),
                !.p3Made = @ + Inc(p3 = Some(TRUE))]

\* the block `if (h.strokes != null) { ... }` (lines 82-113)
StrokesBlock(t, h, level) ==
    IF h.strokes = None THEN t
    ELSE LET sdHole == h.par # 3
             p3 == par3Equivalent(level, h)
         IN  [t EXCEPT
                !.holesWithStrokes = @ + 1,
                !.totalStrokes = @ + h.strokes[1],
                !.sdEligible = @ + Inc(sdHole),
                !.sdMade = @ + Inc(sdHole /\ h.reachedSD = Some(TRUE)),
                !.npirEligible = @ + Inc(sdHole),
                !.npirMade = @ + Inc(sdHole /\ h.reachedSD # Some(TRUE)),
                !.p3Eligible = @ + Inc(p3 # None),
                !.p3Made = @ + Inc(p3 = Some(TRUE))]

\* the block `if (h.putts != null) { ... }` (lines 115-120)
PuttsBlock(t, h) ==
    IF h.putts = None THEN t
    ELSE [t EXCEPT
            !.puttsEntered = @ + 1,
            !.puttsTotal = @ + h.putts[1],
            !.puttsLostTotal = @ + puttingLost(h.putts),
            !.holesWithPutts = @ + 1]

\* mutant of MissedPuttsBlock: missed putts count only on holes with putts
MissedPuttsBlockNeedsPutts(t, h) ==
    IF h.missedPutts6ft = None \/ ~(h.missedPutts6ft[1] > 0) \/ h.putts = None THEN t
    ELSE [t EXCEPT
            !.missedPutts6ftTotal = @ + h.missedPutts6ft[1],
            !.holesWithMissedPutts6ft = @ + 1]

\* the block `if (h.missedPutts6ft != null && h.missedPutts6ft > 0)` (lines 123-128)
MissedPuttsBlock(t, h) ==
    IF h.missedPutts6ft = None \/ ~(h.missedPutts6ft[1] > 0) THEN t
    ELSE [t EXCEPT
            !.missedPutts6ftTotal = @ + h.missedPutts6ft[1],
            !.holesWithMissedPutts6ft = @ + Inc(h.putts # None)]

\* mutant of TeeShotBlock: the tee shot of a par 3 counts too
TeeShotBlockAnyPar(t, h) ==
    [t EXCEPT
       !.teeShotsFairwayTotal = @ + Inc(h.teeShotResult = Some("fairway")),
       !.teeShotsTroubleTotal = @ + Inc(h.teeShotResult = Some("trouble"))]

\* the block `if (h.par !== 3) { ... }` on the tee shot (lines 131-134)
TeeShotBlock(t, h) ==
    IF h.par = 3 THEN t
    ELSE [t EXCEPT
            !.teeShotsFairwayTotal = @ + Inc(h.teeShotResult = Some("fairway")),
            !.teeShotsTroubleTotal = @ + Inc(h.teeShotResult = Some("trouble"))]

\* mutant of AccumulateHole: par is added only for holes that have strokes
AccumulateHolePlayedPar(t, h, r) ==
    LET t1 == [t EXCEPT
                 !.totalPar = @ + (IF h.strokes # None THEN h.par ELSE 0),
                 !.strokesLostTotal = @ + holeStrokesLost(h, r.weights)]
    IN  TeeShotBlock(MissedPuttsBlock(PuttsBlock(StrokesBlock(t1, h, r.level), h), h), h)

\* mutant of AccumulateHole: strokes lost are added only for holes that have strokes
AccumulateHolePlayedLoss(t, h, r) ==
    LET t1 == [t EXCEPT
                 !.totalPar = @ + h.par,
                 !.strokesLostTotal = @ + (IF h.strokes # None THEN holeStrokesLost(h, r.weights) ELSE 0)]
    IN  TeeShotBlock(MissedPuttsBlock(PuttsBlock(StrokesBlock(t1, h, r.level), h), h), h)

\* one iteration of the loop body (lines 76-135)
AccumulateHole(t, h, r) ==
    LET t1 == [t EXCEPT
                 !.totalPar = @ + h.par,
                 !.strokesLostTotal = @ + holeStrokesLost(h, r.weights)]
    IN  TeeShotBlock(MissedPuttsBlock(PuttsBlock(StrokesBlock(t1, h, r.level), h), h), h)

RECURSIVE AccumulateFrom(_, _, _, _)
\* the loop `for (const h of used)`, from position i on
AccumulateFrom(used, i, t, r) ==
    IF i > Len(used) THEN t
    ELSE LET next == AccumulateHole(t, used[i], r)
         IN  \* the test evaluates `next` before the loop goes on (it never fails)
             IF next.totalPar >= t.totalPar THEN AccumulateFrom(used, i + 1, next, r)
             ELSE next

\* mutant of Pct: a zero denominator yields 0 instead of undefined
PctZero(num, den) == IF den # 0 THEN Some(MathRound(100 * num, den)) ELSE Some(0)

\* value ? Math.round((num / den) * 100) : undefined
Pct(num, den) == IF den # 0 THEN Some(MathRound(100 * num, den)) ELSE None

computeRoundSummary(r) ==
    LET t == AccumulateFrom(UsedHoles(r), 1, ZeroTotals, r)
        teeShotsRecorded == t.teeShotsFairwayTotal + t.teeShotsTroubleTotal
    IN  [strokes |-> IF t.holesWithStrokes # 0 THEN Some(t.totalStrokes) ELSE None,
         toPar |-> IF t.holesWithStrokes # 0 THEN Some(t.totalStrokes - t.totalPar) ELSE None,
         sdPct |-> Pct(t.sdMade, t.sdEligible),
         sdMade |-> t.sdMade,
         sdEligible |-> t.sdEligible,
         npirPct |-> Pct(t.npirMade, t.npirEligible),
         npirMade |-> t.npirMade,
         npirEligible |-> t.npirEligible,
         p3Pct |-> Pct(t.p3Made, t.p3Eligible),
         p3Made |-> t.p3Made,
         p3Eligible |-> t.p3Eligible,
         avgPutts |-> IF t.puttsEntered # 0 THEN Some(round1(t.puttsTotal, t.puttsEntered)) ELSE None,
         puttsLostTotal |-> round1(t.puttsLostTotal, 1),
         missedPutts6ftTotal |-> t.missedPutts6ftTotal,
         missedPutts6ftPct |-> Pct(t.holesWithMissedPutts6ft, t.holesWithPutts),
         teeShotsFairwayTotal |-> t.teeShotsFairwayTotal,
         teeShotsTroubleTotal |-> t.teeShotsTroubleTotal,
         teeShotsFairwayPct |-> Pct(t.teeShotsFairwayTotal, teeShotsRecorded),
         strokesLostTotal |-> round1(t.strokesLostTotal, 10)]

----
(* Inputs: the bounded sets of RoundState values computeRoundSummary is    *)
(* applied to.                                                             *)

\* longest run of equal holes in a generated round
MaxRun == 3

\* largest strokes value entered on the hole under test
MaxStrokes == 7

OptBool == {None, Some(TRUE), Some(FALSE)}

DefaultWeights == [bunker |-> 100, duffed |-> 100]

\* the weights a round may carry (hundredths)
WeightValues == {DefaultWeights, [bunker |-> 25, duffed |-> 150]}

\* the entry fields of a hole nobody has touched
Untouched ==
    [par |-> 4, strokes |-> None, putts |-> None, missedPutts6ft |-> None,
     reachedSD |-> None, teeShotResult |-> None, oopsies |-> NoOopsies]

\* holes that differ in par, strokes and the SD checkbox
ScoreKinds ==
    {[Untouched EXCEPT !.par = p, !.strokes = s, !.reachedSD = sd] :
        p \in Pars, s \in {None, Some(4), Some(5)}, sd \in OptBool}

\* holes that differ in strokes, putts, tee shot and oopsies
EntryKinds ==
    {[Untouched EXCEPT !.strokes = s, !.putts = pu, !.teeShotResult = tee, !.oopsies = o] :
        s \in {None, Some(5)}, pu \in {None, Some(1), Some(4)},
        tee \in {None, Some("fairway"), Some("trouble")},
        o \in {NoOopsies, [lostBall |-> 1, bunker |-> 1, duffed |-> 2]}}

\* a hole of the given kind at 1-based position k with stroke index si
HoleOfKind(k, kind, si) ==
    [n |-> k,
     par |-> kind.par,
     strokeIndex |-> si,
     strokes |-> kind.strokes,
     putts |-> kind.putts,
     missedPutts6ft |-> kind.missedPutts6ft,
     reachedSD |-> kind.reachedSD,
     teeShotResult |-> kind.teeShotResult,
     oopsies |-> kind.oopsies]

\* `a` holes of kind A, then `b` holes of kind B, then untouched holes; the
\* holes past holesCount (kept when a stored 18-hole round is cut to 9)
\* repeat kind A. Stroke indexes run 9, 10, 11, ... from the first hole.
RoundOf(level, w, hc, len, A, a, B, b) ==
    [holesCount |-> hc,
     level |-> level,
     scoringDistance |-> 125,
     weights |-> w,
     holes |-> [k \in 1..len |->
                  HoleOfKind(k,
                             IF k <= a \/ k > hc THEN A
                             ELSE IF k <= a + b THEN B
                             ELSE Untouched,
                             ((k + 7) % MaxStrokeIndex) + 1)]]

\* <<holesCount, holes.length>>
Shapes == {<<18, 18>>, <<9, 18>>}

Runs == {ab \in (0..MaxRun) \X (0..MaxRun) : ab[1] + ab[2] <= MaxRun}

PlayedScoreKinds == {k \in ScoreKinds : k.strokes # None}

CleanEntryKinds == {k \in EntryKinds : k.oopsies = NoOopsies}

\* defaultRound(holesCount) of HomeClient
defaultRound(holesCount) ==
    [holesCount |-> holesCount,
     level |-> "Bogey Golf",
     scoringDistance |-> 125,
     weights |-> DefaultWeights,
     holes |-> makeDefaultHoles(holesCount)]

\* every hole par p with stroke index 10, hole j played in s strokes and
\* two putts with the SD box ticked, the others untouched
FlatRound(hc, l, p, j, s) ==
    [defaultRound(hc) EXCEPT
        !.level = l,
        !.holes = [k \in 1..hc |->
                     [DefaultHole(k - 1) EXCEPT
                        !.par = p,
                        !.strokeIndex = 10,
                        !.strokes = IF k = j THEN Some(s) ELSE None,
                        !.putts = IF k = j THEN Some(2) ELSE None,
                        !.reachedSD = IF k = j THEN Some(TRUE) ELSE None]]]

\* rounds that mix two kinds of hole differing in par, strokes and SD box
InitScore ==
    \E l \in Levels, sh \in Shapes, ab \in Runs, A \in PlayedScoreKinds, B \in ScoreKinds :
        round = RoundOf(l, DefaultWeights, sh[1], sh[2], A, ab[1], B, ab[2])

\* rounds that mix two kinds of hole differing in putts, tee shot, oopsies
InitEntry ==
    \E w \in WeightValues, sh \in Shapes, ab \in Runs, A \in EntryKinds, B \in CleanEntryKinds :
        round = RoundOf("Bogey Golf", w, sh[1], sh[2], A, ab[1], B, ab[2])

\* a default round at any level whose first hole has any par, stroke index
\* and strokes
InitHole ==
    \E hc \in HoleCounts, l \in Levels, p \in Pars, si \in 1..MaxStrokeIndex,
       s \in {None} \cup {Some(v) : v \in 0..MaxStrokes} :
        round = [defaultRound(hc) EXCEPT
                    !.level = l,
                    !.holes[1] = [@ EXCEPT !.par = p, !.strokeIndex = si, !.strokes = s]]

\* a flat course with one hole played
InitFlat ==
    \E hc \in HoleCounts, l \in Levels, p \in Pars, j \in 1..9, s \in 3..MaxStrokes :
        round = FlatRound(hc, l, p, j, s)

\* largest putts value entered on the hole under test
MaxPutts == 4

\* largest count of one kind of oopsie entered on the hole under test
MaxOops == 2

\* weights a stored round may carry: the default, a calibrated pair, and a
\* pair with a negative multiplier (the rounds row stores any JSON value)
LossWeights ==
    {DefaultWeights, [bunker |-> 25, duffed |-> 150], [bunker |-> -50, duffed |-> 75]}

\* a default round whose first hole has any par, putts and oopsies, under
\* any of the weights
InitLoss ==
    \E hc \in HoleCounts, w \in LossWeights, p \in Pars,
       pu \in {None} \cup {Some(v) : v \in 0..MaxPutts},
       lb \in 0..MaxOops, bu \in 0..MaxOops, du \in 0..MaxOops :
        round = [defaultRound(hc) EXCEPT
                    !.weights = w,
                    !.holes[1] = [@ EXCEPT !.par = p, !.putts = pu,
                                           !.oopsies = [lostBall |-> lb, bunker |-> bu,
                                                        duffed |-> du]]]

----
(* app/HomeClient.tsx: helpers of the page                                 *)

\* mutant of goalScore: the Break 80 boundary is off by one
goalScoreOffByOne(level, par, strokeIndex) ==
    IF level = "Scratch" THEN par
    ELSE IF level = "Bogey Golf" THEN par + 1
    ELSE par + (IF strokeIndex > 10 THEN 1 ELSE 0)

goalScore(level, par, strokeIndex) ==
    IF level = "Scratch" THEN par
    ELSE IF level = "Bogey Golf" THEN par + 1
    ELSE par + (IF strokeIndex >= 10 THEN 1 ELSE 0)

----
(* State machine: HomeClient holds a RoundState and derives its summary.   *)

\* the useState and useRef initial values of the page, before any load
PageMounted ==
    /\ isCompleted = FALSE
    /\ hydrated = FALSE
    /\ saveTimer = None
    /\ timers = {}
    /\ saves = <<>>
    /\ finishing = FALSE
    /\ roundId = None
    /\ courseId = None
    /\ templates = <<>>

\* nothing stored yet
EmptyDb ==
    /\ db = <<>>
    /\ courses = <<>>
    /\ storedBefore = 0
    /\ profile = None

NoHistory ==
    /\ shelved = None
    /\ edits = 0

\* ensureUsername has not been called
NotCalled ==
    /\ pc = "idle"
    /\ tries = 0
    /\ upserts = <<>>
    /\ result = None

Init ==
    /\ InitScore \/ InitEntry \/ InitHole \/ InitFlat
    /\ summary = None
    /\ PageMounted
    /\ EmptyDb
    /\ NoHistory
    /\ NotCalled

\* const summary = useMemo(() => computeRoundSummary(round), [round])
Summarize ==
    /\ summary = None
    /\ summary' = Some(computeRoundSummary(round))
    /\ UNCHANGED <<round, pageVars, dbVars, historyVars, otherVars>>

Next == Summarize

Spec == Init /\ [][Next]_vars

\* the summary of a round that has one edited hole
HoleInit ==
    /\ InitLoss \/ InitHole
    /\ summary = None
    /\ PageMounted
    /\ EmptyDb
    /\ NoHistory
    /\ NotCalled

HoleSpec == HoleInit /\ [][Next]_vars

\* most holes played in a round of InitTally
MaxPlayed == 9

\* holes that differ in putts and missed short putts
MissedKinds ==
    {[Untouched EXCEPT !.putts = pu, !.missedPutts6ft = m] :
        pu \in {None, Some(2)}, m \in {None, Some(0), Some(1), Some(2)}}

\* holes that differ in par, strokes and tee shot
TeeKinds ==
    {[Untouched EXCEPT !.par = p, !.strokes = s, !.teeShotResult = tee] :
        p \in {3, 4}, s \in {None, Some(5)},
        tee \in {None, Some("fairway"), Some("trouble")}}

\* rounds that mix two kinds of hole differing in putts and missed putts
InitMissed ==
    \E sh \in Shapes, ab \in Runs, A \in MissedKinds, B \in MissedKinds :
        round = RoundOf("Bogey Golf", DefaultWeights, sh[1], sh[2], A, ab[1], B, ab[2])

\* rounds that mix two kinds of hole differing in par and tee shot
InitTee ==
    \E sh \in Shapes, ab \in Runs, A \in TeeKinds, B \in TeeKinds :
        round = RoundOf("Scratch", DefaultWeights, sh[1], sh[2], A, ab[1], B, ab[2])

\* a default round whose first n holes are played in 5 strokes, the first
\* k of them par 3s and the first m with the SD box ticked; the box of the
\* other played holes is unticked or was never touched, in turn
InitTally ==
    \E hc \in HoleCounts, l \in Levels, n \in 0..MaxPlayed, k \in 0..2 :
        \E m \in 0..n :
            /\ n <= hc
            /\ round = [defaultRound(hc) EXCEPT
                          !.level = l,
                          !.holes = [j \in 1..hc |->
                                       IF j > n THEN DefaultHole(j - 1)
                                       ELSE [DefaultHole(j - 1) EXCEPT
                                               !.par = IF j <= k THEN 3 ELSE 4,
                                               !.strokes = Some(5),
                                               !.reachedSD = IF j <= m THEN Some(TRUE)
                                                             ELSE IF j % 2 = 0 THEN Some(FALSE)
                                                             ELSE None]]]

\* the summary of a round with many holes played or tallied
TallyInit ==
    /\ InitMissed \/ InitTee \/ InitTally
    /\ summary = None
    /\ PageMounted
    /\ EmptyDb
    /\ NoHistory
    /\ NotCalled

TallySpec == TallyInit /\ [][Next]_vars

----
(* lib/storage/remoteSupabase.ts: the rounds, round_holes, courses and     *)
(* course_holes tables. A round id is the position of its record in db, a  *)
(* course id the position of its record in courses. The round_summaries    *)
(* rows, derived from the same round and read by no handler of the page,   *)
(* are left out.                                                           *)

\* most entries made, rounds created and templates saved in one behaviour
MaxWork == 2

\* the user can still make an entry, start a round or save a template
WithinWork == edits + Len(db) + Len(courses) < MaxWork + storedBefore

SetMax(S) == CHOOSE x \in S : \A y \in S : y <= x

\* the round_holes rows of a round that has none, by hole_no
NoRows == [k \in 1..MaxStrokeIndex |-> None]

\* the round_holes row written for a hole
HoleRow(h) ==
    [hole_no |-> h.n,
     par |-> h.par,
     stroke_index |-> h.strokeIndex,
     strokes |-> h.strokes,
     putts |-> h.putts,
     missed_putts_6ft |-> h.missedPutts6ft,
     reached_sd |-> h.reachedSD,
     oopsies |-> h.oopsies]

\* the rows after each of the holes was written under its hole_no, in order
PutRows(rows, used) ==
    [k \in DOMAIN rows |->
        LET writers == {i \in 1..Len(used) : used[i].n = k}
        IN  IF writers = {} THEN rows[k] ELSE Some(HoleRow(used[SetMax(writers)]))]

\* the database after createRound(round, courseId); the new id is its length
createRound(d, r, cid) ==
    Append(d, [course_id |-> cid,
               holes_count |-> r.holesCount,
               level |-> r.level,
               scoring_distance |-> r.scoringDistance,
               weights |-> r.weights,
               completed |-> FALSE,
               rows |-> PutRows(NoRows, FirstN(r.holes, r.holesCount))])

\* the database after upsertRound(roundId, round, courseId)
upsertRound(d, id, r, cid) ==
    [d EXCEPT ![id] = [@ EXCEPT !.course_id = cid,
                                !.holes_count = r.holesCount,
                                !.level = r.level,
                                !.scoring_distance = r.scoringDistance,
                                !.weights = r.weights,
                                !.rows = PutRows(@, FirstN(r.holes, r.holesCount))]]

\* fetchRoundById(roundId) for a stored round
fetchRoundById(d, id) ==
    LET r == d[id]
        holesCount == IF r.holes_count = 9 THEN 9 ELSE 18
        defaults == makeDefaultHoles(holesCount)
    IN  [roundId |-> id,
         courseId |-> r.course_id,
         completed |-> r.completed,
         round |-> [holesCount |-> holesCount,
                    level |-> r.level,
                    scoringDistance |-> r.scoring_distance,
                    weights |-> r.weights,
                    holes |-> [k \in 1..holesCount |->
                                 IF r.rows[k] = None THEN defaults[k]
                                 ELSE LET row == r.rows[k][1]
                                      IN  [defaults[k] EXCEPT
                                             !.par = row.par,
                                             !.strokeIndex = row.stroke_index,
                                             !.strokes = row.strokes,
                                             !.putts = row.putts,
                                             !.reachedSD = row.reached_sd,
                                             !.oopsies = row.oopsies]]]]

\* the hole fetchLatestRound builds from a round_holes row
HoleOfRow(row) ==
    [n |-> row.hole_no,
     par |-> row.par,
     strokeIndex |-> row.stroke_index,
     strokes |-> row.strokes,
     putts |-> row.putts,
     missedPutts6ft |-> row.missed_putts_6ft,
     reachedSD |-> row.reached_sd,
     teeShotResult |-> None,
     oopsies |-> row.oopsies]

\* fetchLatestRound() when a round is stored: the round started last, with
\* one hole per stored row in hole_no order
fetchLatestRound(d) ==
    LET r == d[Len(d)]
        stored == {k \in DOMAIN r.rows : r.rows[k] # None}
        nth(i) == CHOOSE k \in stored : Cardinality({j \in stored : j < k}) = i - 1
    IN  [roundId |-> Len(d),
         courseId |-> r.course_id,
         round |-> [holesCount |-> r.holes_count,
                    level |-> r.level,
                    scoringDistance |-> r.scoring_distance,
                    weights |-> r.weights,
                    holes |-> [i \in 1..Cardinality(stored) |-> HoleOfRow(r.rows[nth(i)][1])]]]

\* the courses table after createTemplateFromRound(name, round): the course
\* row is inserted first, its course_holes rows in a second request that
\* can fail and leave the course without holes
createTemplateFromRound(cs, name, r, holesInserted) ==
    Append(cs, [name |-> name,
                holes_count |-> r.holesCount,
                holes |-> IF holesInserted
                          THEN LET used == FirstN(r.holes, r.holesCount)
                               IN  [k \in 1..Len(used) |->
                                      [hole_no |-> used[k].n, par |-> used[k].par,
                                       stroke_index |-> used[k].strokeIndex]]
                          ELSE <<>>])

\* fetchTemplates(): the stored courses, newest first
fetchTemplates(cs) ==
    [i \in 1..Len(cs) |->
        LET id == Len(cs) + 1 - i
            c == cs[id]
        IN  [id |-> id,
             name |-> c.name,
             holesCount |-> c.holes_count,
             holes |-> [k \in 1..Len(c.holes) |->
                          [n |-> c.holes[k].hole_no, par |-> c.holes[k].par,
                           strokeIndex |-> c.holes[k].stroke_index]]]]

----
(* app/HomeClient.tsx: the handlers of the page. The signed-in user is     *)
(* fixed; selectedTemplateId, templateName and syncMsg, which no handler   *)
(* reads back into the round, are left out.                                *)

\* useMemo(() => computeRoundSummary(round), [round]) after a state change
Rendered(r) == Some(computeRoundSummary(r))

\* { ...h, ...patch }
Merge(h, patch) == [f \in DOMAIN h |-> IF f \in DOMAIN patch THEN patch[f] ELSE h[f]]

\* the patches the hole row of the page sends, one field at a time
Patches == {[par |-> 5], [strokes |-> Some(5)], [missedPutts6ft |-> Some(1)]}

\* the autosave effect (lines 986-1008) after a render in which round,
\* roundId, courseId or isCompleted changed: the timer of the previous
\* render is cleared and a new one is armed if the guards let it
Armed(h, id, completed) == h /\ id # None /\ ~completed

\* the pending timeouts after clearTimeout(saveTimer.current)
Cleared == {t \in timers : Some(t.handle) # saveTimer}

\* the handle window.setTimeout returns: one that no pending timeout has
NewHandle(pending) ==
    CHOOSE n \in 1..(Cardinality(pending) + 1) :
        /\ \A t \in pending : t.handle # n
        /\ \A m \in 1..(n - 1) : \E t \in pending : t.handle = m

\* mutant of autosaveEffect: the timeout set before is left pending
autosaveEffectNoClear(h, id, r, cid, completed) ==
    LET pending == timers
        handle == NewHandle(pending)
    IN  IF Armed(h, id, completed)
        THEN /\ timers' = pending \cup {[handle |-> handle, roundId |-> id[1],
                                          round |-> r, courseId |-> cid]}
             /\ saveTimer' = Some(handle)
        ELSE /\ timers' = pending
             /\ saveTimer' = saveTimer

\* the autosave effect (lines 986-1008) after a render that changed round,
\* roundId, courseId or isCompleted to the given values: the timeout set
\* before is cleared, by the cleanup of the run that set it or by this run,
\* and if the guards pass a new one is set whose callback holds the values
\* of this render
autosaveEffect(h, id, r, cid, completed) ==
    LET pending == Cleared
        handle == NewHandle(pending)
    IN  IF Armed(h, id, completed)
        THEN /\ timers' = pending \cup {[handle |-> handle, roundId |-> id[1],
                                          round |-> r, courseId |-> cid]}
             /\ saveTimer' = Some(handle)
        ELSE /\ timers' = pending
             /\ saveTimer' = saveTimer

\* 0-based positions of the holes edited: one on each nine
EditedIdx == {0, 9}

HomeInit ==
    /\ round = defaultRound(18)
    /\ summary = Rendered(round)
    /\ PageMounted
    /\ EmptyDb
    /\ NoHistory
    /\ NotCalled

setLevel(level) ==
    /\ ~isCompleted
    /\ WithinWork
    /\ round' = [round EXCEPT !.level = level]
    /\ summary' = Rendered(round')
    /\ autosaveEffect(hydrated, roundId, round', courseId, isCompleted)
    /\ edits' = edits + 1
    /\ UNCHANGED <<isCompleted, hydrated, roundId, courseId, templates, dbVars, shelved,
                   otherVars>>

\* the state update of setHolesCount
setHolesCountUpdate(r, holesCount) ==
    LET holes == makeDefaultHoles(holesCount)
        existing == FirstN(r.holes, holesCount)
    IN  [r EXCEPT
           !.holesCount = holesCount,
           !.holes = [k \in 1..holesCount |->
                        IF k <= Len(existing)
                        THEN [holes[k] EXCEPT
                                !.par = existing[k].par,
                                !.strokeIndex = existing[k].strokeIndex,
                                !.strokes = existing[k].strokes,
                                !.putts = existing[k].putts,
                                !.missedPutts6ft = existing[k].missedPutts6ft,
                                !.reachedSD = existing[k].reachedSD,
                                !.oopsies = existing[k].oopsies]
                        ELSE holes[k]]]

setHolesCount(holesCount) ==
    /\ ~isCompleted
    /\ round' = setHolesCountUpdate(round, holesCount)
    /\ summary' = Rendered(round')
    /\ autosaveEffect(hydrated, roundId, round', courseId, isCompleted)
    /\ shelved' = IF holesCount = 9 /\ round.holesCount = 18 THEN Some(round.holes)
                  ELSE IF holesCount = 9 THEN shelved
                  ELSE None
    /\ UNCHANGED <<isCompleted, hydrated, roundId, courseId, templates, dbVars, edits,
                   otherVars>>

\* mutant of updateHole: a finished round can still be edited
updateHoleUnguarded(idx, patch) ==
    /\ WithinWork
    /\ round' = [round EXCEPT
                   !.holes = [k \in 1..Len(@) |->
                                IF k - 1 = idx THEN Merge(@[k], patch) ELSE @[k]]]
    /\ summary' = Rendered(round')
    /\ autosaveEffect(hydrated, roundId, round', courseId, isCompleted)
    /\ edits' = edits + 1
    /\ UNCHANGED <<isCompleted, hydrated, roundId, courseId, templates, dbVars, shelved,
                   otherVars>>

updateHole(idx, patch) ==
    /\ ~isCompleted
    /\ WithinWork
    /\ round' = [round EXCEPT
                   !.holes = [k \in 1..Len(@) |->
                                IF k - 1 = idx THEN Merge(@[k], patch) ELSE @[k]]]
    /\ summary' = Rendered(round')
    /\ autosaveEffect(hydrated, roundId, round', courseId, isCompleted)
    /\ edits' = edits + 1
    /\ UNCHANGED <<isCompleted, hydrated, roundId, courseId, templates, dbVars, shelved,
                   otherVars>>

updateOops(idx, key, v) ==
    /\ ~isCompleted
    /\ WithinWork
    /\ round' = [round EXCEPT
                   !.holes = [k \in 1..Len(@) |->
                                IF k - 1 = idx THEN [@[k] EXCEPT !.oopsies[key] = v]
                                ELSE @[k]]]
    /\ summary' = Rendered(round')
    /\ autosaveEffect(hydrated, roundId, round', courseId, isCompleted)
    /\ edits' = edits + 1
    /\ UNCHANGED <<isCompleted, hydrated, roundId, courseId, templates, dbVars, shelved,
                   otherVars>>

newRoundKeepCourse ==
    /\ WithinWork
    /\ LET next == resetRoundKeepCourse(round)
       IN  /\ db' = createRound(db, next, courseId)
           /\ round' = next
    /\ summary' = Rendered(round')
    /\ roundId' = Some(Len(db'))
    /\ isCompleted' = FALSE
    /\ autosaveEffect(hydrated, roundId', round', courseId, isCompleted')
    /\ shelved' = None
    /\ UNCHANGED <<hydrated, courseId, templates, courses, edits, otherVars>>

\* the Finish button, disabled once the round is finished (line 1326); the
\* user confirms, the round row is marked completed and the page leaves
\* for /history
finishRound ==
    /\ roundId # None
    /\ ~isCompleted
    /\ db' = [db EXCEPT ![roundId[1]].completed = TRUE]
    /\ isCompleted' = TRUE
    /\ autosaveEffect(hydrated, roundId, round, courseId, isCompleted')
    /\ UNCHANGED <<round, summary, hydrated, roundId, courseId, templates, courses,
                   historyVars, otherVars>>

\* the template is stored; when its holes are stored too the list of the
\* page is fetched again, otherwise the error leaves the list as it was
saveCurrentTemplate(holesInserted) ==
    /\ ~isCompleted
    /\ WithinWork
    /\ courses' = createTemplateFromRound(courses, "Home", round, holesInserted)
    /\ templates' = IF holesInserted THEN fetchTemplates(courses') ELSE templates
    /\ UNCHANGED <<round, summary, isCompleted, hydrated, saveTimer, timers, roundId,
                   courseId, db, historyVars, otherVars>>

loadTemplate(id) ==
    /\ ~isCompleted
    /\ \E i \in 1..Len(templates) :
        /\ templates[i].id = id
        /\ \A j \in 1..(i - 1) : templates[j].id # id
        /\ round' = applyTemplateToNewRound(templates[i],
                                            [level |-> round.level,
                                             scoringDistance |-> round.scoringDistance,
                                             weights |-> round.weights])
    /\ summary' = Rendered(round')
    /\ courseId' = Some(id)
    /\ autosaveEffect(hydrated, roundId, round', courseId', isCompleted)
    /\ shelved' = None
    /\ UNCHANGED <<isCompleted, hydrated, roundId, templates, dbVars, edits, otherVars>>

\* a pending timeout fires and its callback stores the round it was set
\* for, every request of upsertRound answered before anything else happens
autosave ==
    \E t \in timers :
        /\ db' = upsertRound(db, t.roundId, t.round, t.courseId)
        /\ timers' = timers \ {t}
        /\ UNCHANGED <<round, summary, isCompleted, hydrated, saveTimer, roundId, courseId,
                       templates, courses, historyVars, otherVars>>

\* the page is opened on /?round=id and the load effect runs
openRound(id) ==
    /\ id \in 1..Len(db)
    /\ LET loaded == fetchRoundById(db, id)
       IN  /\ round' = loaded.round
           /\ roundId' = Some(loaded.roundId)
           /\ courseId' = loaded.courseId
           /\ isCompleted' = loaded.completed
    /\ summary' = Rendered(round')
    /\ templates' = fetchTemplates(courses)
    /\ hydrated' = TRUE
    /\ autosaveEffect(hydrated', roundId', round', courseId', isCompleted')
    /\ shelved' = None
    /\ UNCHANGED <<dbVars, edits, otherVars>>

\* mutant of openLatest: a finished latest round is continued
openLatestContinueFinished ==
    /\ templates' = fetchTemplates(courses)
    /\ hydrated' = TRUE
    /\ isCompleted' = FALSE
    /\ IF db = <<>>
       THEN /\ WithinWork
            /\ round' = defaultRound(18)
            /\ db' = createRound(db, round', None)
            /\ roundId' = Some(Len(db'))
            /\ courseId' = None
       ELSE LET latest == fetchLatestRound(db)
            IN  IF db[latest.roundId].completed
                THEN /\ WithinWork
                     /\ round' = latest.round
                     /\ roundId' = Some(latest.roundId)
                     /\ courseId' = latest.courseId
                     /\ db' = db
                ELSE /\ round' = latest.round
                     /\ roundId' = Some(latest.roundId)
                     /\ courseId' = latest.courseId
                     /\ db' = db
    /\ summary' = Rendered(round')
    /\ autosaveEffect(hydrated', roundId', round', courseId', isCompleted')
    /\ shelved' = None
    /\ UNCHANGED <<courses, edits, otherVars>>

\* the page is opened on / and the load effect runs: the latest round is
\* continued, or followed by a fresh one when it is finished, or a first
\* round is created
openLatest ==
    /\ templates' = fetchTemplates(courses)
    /\ hydrated' = TRUE
    /\ isCompleted' = FALSE
    /\ IF db = <<>>
       THEN /\ WithinWork
            /\ round' = defaultRound(18)
            /\ db' = createRound(db, round', None)
            /\ roundId' = Some(Len(db'))
            /\ courseId' = None
       ELSE LET latest == fetchLatestRound(db)
            IN  IF db[latest.roundId].completed
                THEN /\ WithinWork
                     /\ round' = resetRoundKeepCourse(latest.round)
                     /\ db' = createRound(db, round', latest.courseId)
                     /\ roundId' = Some(Len(db'))
                     /\ courseId' = latest.courseId
                ELSE /\ round' = latest.round
                     /\ roundId' = Some(latest.roundId)
                     /\ courseId' = latest.courseId
                     /\ db' = db
    /\ summary' = Rendered(round')
    /\ autosaveEffect(hydrated', roundId', round', courseId', isCompleted')
    /\ shelved' = None
    /\ UNCHANGED <<courses, edits, otherVars>>

\* the edited positions among the hole rows the page shows
ShownIdx == {idx \in EditedIdx : idx < round.holesCount}

HomeNext ==
    \/ \E level \in Levels : setLevel(level)
    \/ \E holesCount \in HoleCounts : setHolesCount(holesCount)
    \/ \E idx \in ShownIdx, patch \in Patches : updateHole(idx, patch)
    \/ \E idx \in ShownIdx : updateOops(idx, "lostBall", 1)
    \/ newRoundKeepCourse
    \/ finishRound
    \/ \E holesInserted \in BOOLEAN : saveCurrentTemplate(holesInserted)
    \/ \E id \in 1..Len(courses) : loadTemplate(id)
    \/ autosave
    \/ \E id \in 1..Len(db) : openRound(id)
    \/ openLatest

HomeSpec == HomeInit /\ [][HomeNext]_vars

\* rounds an earlier session can have stored: entries on the first hole
StoredRounds ==
    {[defaultRound(hc) EXCEPT
        !.level = l,
        !.holes[1] = [@ EXCEPT !.par = p, !.strokes = s, !.putts = pu,
                               !.missedPutts6ft = m,
                               !.oopsies = [lostBall |-> lb, bunker |-> 0, duffed |-> 0]]] :
        hc \in HoleCounts, l \in Levels, p \in Pars, s \in {None, Some(5)},
        pu \in {None, Some(2)}, m \in {None, Some(1)}, lb \in 0..1}

\* the page is mounted in a new session: nothing is stored, or one round
\* is, finished or not, started from a stored course or from none
LoadInit ==
    /\ round = defaultRound(18)
    /\ summary = Rendered(round)
    /\ PageMounted
    /\ NoHistory
    /\ NotCalled
    /\ \/ EmptyDb
       \/ \E r \in StoredRounds, fromCourse \in BOOLEAN, completed \in BOOLEAN :
            /\ courses = IF fromCourse
                         THEN createTemplateFromRound(<<>>, "Home", r, TRUE)
                         ELSE <<>>
            /\ db = [createRound(<<>>, r, IF fromCourse THEN Some(1) ELSE None)
                        EXCEPT ![1].completed = completed]
            /\ storedBefore = Len(db) + Len(courses)
            /\ profile = None

LoadNext ==
    \/ openLatest
    \/ finishRound

LoadSpec == LoadInit /\ [][LoadNext]_vars

----
(* The autosave and finishRound with their awaits: between a request and  *)
(* its answer the user goes on editing, timeouts fire and other requests  *)
(* are answered.                                                          *)

\* most calls of upsertRound in flight at once
MaxSaves == 2

\* the entries made while saves are in flight: par and strokes of a hole
ScorePatches == {[par |-> 5], [strokes |-> Some(5)]}

\* the database after the request a call of upsertRound is waiting on:
\* the update of the round row first (next = 0), then the upsert of one
\* hole row after the other
upsertRoundRequest(d, call) ==
    LET r == call.round
        used == FirstN(r.holes, r.holesCount)
    IN  IF call.next = 0
        THEN [d EXCEPT ![call.roundId] = [@ EXCEPT !.course_id = call.courseId,
                                                  !.holes_count = r.holesCount,
                                                  !.level = r.level,
                                                  !.scoring_distance = r.scoringDistance,
                                                  !.weights = r.weights]]
        ELSE [d EXCEPT ![call.roundId].rows = PutRows(@, <<used[call.next]>>)]

\* the timeout fires: its callback calls upsertRound with the values of the
\* render that set it, and upsertRound sends its first request
timerFires(t) ==
    /\ t \in timers
    /\ Len(saves) < MaxSaves
    /\ timers' = timers \ {t}
    /\ saves' = Append(saves, [roundId |-> t.roundId, round |-> t.round,
                                courseId |-> t.courseId, next |-> 0])
    /\ UNCHANGED <<round, summary, isCompleted, hydrated, saveTimer, roundId, courseId,
                   templates, dbVars, storedBefore, finishing, historyVars, nameVars>>

\* the request the k-th call in flight is waiting on is carried out and
\* answered without error; the call sends its next request, or returns
\* when the hole written was the last
upsertRoundAnswered(k) ==
    /\ k \in 1..Len(saves)
    /\ db' = upsertRoundRequest(db, saves[k])
    /\ saves' = IF saves[k].next >= Len(FirstN(saves[k].round.holes,
                                               saves[k].round.holesCount))
                THEN [j \in 1..(Len(saves) - 1) |-> IF j < k THEN saves[j] ELSE saves[j + 1]]
                ELSE [saves EXCEPT ![k].next = @ + 1]
    /\ UNCHANGED <<round, summary, pageVars, courses, storedBefore, finishing,
                   historyVars, nameVars>>

\* finishRound up to its await: the user confirms and the update that
\* marks the round row completed is sent and carried out
finishRoundUpdate ==
    /\ roundId # None
    /\ ~isCompleted
    /\ ~finishing
    /\ db' = [db EXCEPT ![roundId[1]].completed = TRUE]
    /\ finishing' = TRUE
    /\ UNCHANGED <<round, summary, pageVars, courses, storedBefore, saves,
                   historyVars, nameVars>>

\* finishRound after its await: the update was answered without error
finishRoundAnswered ==
    /\ finishing
    /\ finishing' = FALSE
    /\ isCompleted' = TRUE
    /\ autosaveEffect(hydrated, roundId, round, courseId, isCompleted')
    /\ UNCHANGED <<round, summary, hydrated, roundId, courseId, templates, dbVars,
                   storedBefore, saves, historyVars, nameVars>>

\* the page is mounted in a session that left one unfinished round of
\* nine holes in the database
SaveInit ==
    /\ round = defaultRound(18)
    /\ summary = Rendered(round)
    /\ PageMounted
    /\ NoHistory
    /\ NotCalled
    /\ db = createRound(<<>>, defaultRound(9), None)
    /\ courses = <<>>
    /\ storedBefore = 1
    /\ profile = None

SaveNext ==
    \/ ~hydrated /\ openLatest
    \/ hydrated /\ \E patch \in ScorePatches : updateHole(0, patch)
    \/ \E t \in timers : timerFires(t)
    \/ \E k \in 1..Len(saves) : upsertRoundAnswered(k)
    \/ finishRoundUpdate
    \/ finishRoundAnswered

SaveSpec == SaveInit /\ [][SaveNext]_vars

----
(* lib/storage/ensureUsername.ts: ensureUsername(userId, email). The       *)
(* candidate of generateUsernameCandidate is random; the candidate tried   *)
(* in the pass i of the loop is named i + 1, and 0 names a username the    *)
(* profile had before the call.                                            *)

\* for (let i = 0; i < 12; i++)
MaxAttempts == 12

Return(v) == Some([kind |-> "return", value |-> v])

Throw(message) == Some([kind |-> "throw", value |-> message])

\* what the call leaves alone: the page and its tables
homeVars == <<round, summary, pageVars, dbVars, storedBefore, awaitVars, historyVars>>

\* the call up to the loop: the client is checked and the profile read
readProfile(outcome) ==
    /\ pc = "idle"
    /\ CASE outcome = "noClient" ->
              /\ result' = Throw("Supabase client not initialized.")
              /\ pc' = "done"
         [] outcome = "readErr" ->
              /\ result' = Throw("read error")
              /\ pc' = "done"
         [] outcome = "read" /\ profile # None ->
              /\ result' = Return(profile[1])
              /\ pc' = "done"
         [] outcome = "read" /\ profile = None ->
              /\ result' = None
              /\ pc' = "loop"
    /\ UNCHANGED <<tries, profile, upserts, homeVars>>

\* mutant of tryCandidate: every write error is tried again
tryCandidateRetryAll(existing, write) ==
    /\ pc = "loop"
    /\ tries < MaxAttempts
    /\ LET candidate == tries + 1
       IN  IF existing
           THEN /\ tries' = tries + 1
                /\ UNCHANGED <<pc, profile, upserts, result>>
           ELSE /\ upserts' = Append(upserts, [candidate |-> candidate, answer |-> write])
                /\ CASE write = "ok" ->
                          /\ profile' = Some(candidate)
                          /\ result' = Return(candidate)
                          /\ pc' = "done"
                          /\ tries' = tries
                     [] write = "duplicate" ->
                          /\ tries' = tries + 1
                          /\ UNCHANGED <<pc, profile, result>>
                     [] write = "other" ->
                          /\ tries' = tries + 1
                          /\ UNCHANGED <<pc, profile, result>>
    /\ UNCHANGED homeVars

\* one pass of the loop: the candidate is looked up (an error of the
\* lookup counts as not found), skipped when it exists and written
\* otherwise; the write succeeds, hits a duplicate or fails otherwise
tryCandidate(existing, write) ==
    /\ pc = "loop"
    /\ tries < MaxAttempts
    /\ LET candidate == tries + 1
       IN  IF existing
           THEN /\ tries' = tries + 1
                /\ UNCHANGED <<pc, profile, upserts, result>>
           ELSE /\ upserts' = Append(upserts, [candidate |-> candidate, answer |-> write])
                /\ CASE write = "ok" ->
                          /\ profile' = Some(candidate)
                          /\ result' = Return(candidate)
                          /\ pc' = "done"
                          /\ tries' = tries
                     [] write = "duplicate" ->
                          /\ tries' = tries + 1
                          /\ UNCHANGED <<pc, profile, result>>
                     [] write = "other" ->
                          /\ result' = Throw("write error")
                          /\ pc' = "done"
                          /\ UNCHANGED <<tries, profile>>
    /\ UNCHANGED homeVars

\* the loop ends without a username
giveUp ==
    /\ pc = "loop"
    /\ tries >= MaxAttempts
    /\ result' = Throw("Could not generate a unique username")
    /\ pc' = "done"
    /\ UNCHANGED <<tries, profile, upserts, homeVars>>

\* the user signs in with a profile that has a username or has none
NameInit ==
    /\ round = defaultRound(18)
    /\ summary = Rendered(round)
    /\ PageMounted
    /\ NoHistory
    /\ NotCalled
    /\ db = <<>>
    /\ courses = <<>>
    /\ storedBefore = 0
    /\ profile \in {None, Some(0)}

NameNext ==
    \/ \E outcome \in {"noClient", "readErr", "read"} : readProfile(outcome)
    \/ \E existing \in BOOLEAN, write \in {"ok", "duplicate", "other"} :
          tryCandidate(existing, write)
    \/ giveUp

NameSpec == NameInit /\ [][NameNext]_vars

\* every request of the call is answered
NameFairSpec == NameSpec /\ WF_vars(NameNext)

----
(* Vocabulary of the properties                                            *)

\* the summary has been computed for the round
Summarized == summary # None

\* positions of the holes among the first holesCount
FirstHoles == {i \in 1..Len(round.holes) : i <= round.holesCount}

Played(i) == round.holes[i].strokes # None

\* first holes with strokes on a par 4 or par 5
SDHoles == {i \in FirstHoles : Played(i) /\ round.holes[i].par # 3}

PuttedHoles == {i \in FirstHoles : round.holes[i].putts # None}

TeeShotHoles ==
    {i \in FirstHoles : round.holes[i].par # 3
                        /\ round.holes[i].teeShotResult \in {Some("fairway"), Some("trouble")}}

RECURSIVE SumOver(_, _)
\* the sum of f[i] over the positions i in S
SumOver(f, S) ==
    IF S = {} THEN 0
    ELSE LET i == CHOOSE x \in S : TRUE
         IN  f[i] + SumOver(f, S \ {i})

\* p is an integer nearest to 100 * num / den
NearestPct(p, num, den) ==
    /\ 2 * (100 * num - p * den) <= den
    /\ 2 * (p * den - 100 * num) <= den

\* an optional field is undefined exactly when its denominator is zero, and
\* a number of the given range otherwise
DefinedIff(field, den, range) ==
    /\ (field = None) <=> (den = 0)
    /\ field # None => field[1] \in range

----
(* Properties                                                              *)

\* C1: each of sdPct, npirPct, p3Pct, avgPutts, missedPutts6ftPct and
\* teeShotsFairwayPct is undefined exactly when its denominator count is zero
\* and a number otherwise; a round of par 3s only has sdPct undefined.
C1_UndefinedIffNoDenominator ==
    Summarized =>
        LET s == summary[1]
        IN  /\ DefinedIff(s.sdPct, s.sdEligible, 0..100)
            /\ DefinedIff(s.npirPct, s.npirEligible, 0..100)
            /\ DefinedIff(s.p3Pct, s.p3Eligible, 0..100)
            /\ DefinedIff(s.avgPutts, Cardinality(PuttedHoles), Nat)
            /\ DefinedIff(s.missedPutts6ftPct, Cardinality(PuttedHoles), 0..100)
            /\ DefinedIff(s.teeShotsFairwayPct, Cardinality(TeeShotHoles), 0..100)
            /\ (\A i \in FirstHoles : round.holes[i].par = 3) => s.sdPct = None

\* C1 witness: a summarized round of par 3s with a played hole: sdPct is
\* undefined while p3Pct is a number.
C1_Witness ==
    /\ Summarized
    /\ \A i \in FirstHoles : round.holes[i].par = 3
    /\ \E i \in FirstHoles : Played(i)
    /\ summary[1].sdPct = None
    /\ summary[1].p3Pct # None

\* C2: on the 18-hole Bogey Golf round with every hole par 4, stroke index
\* 10 and one hole played (5 strokes, 2 putts, SD reached), the summary has
\* strokes = 5 and toPar = 1.
C2_OneHoleToPar ==
    (Summarized /\ \E j \in 1..9 : round = FlatRound(18, "Bogey Golf", 4, j, 5)) =>
        /\ summary[1].strokes = Some(5)
        /\ summary[1].toPar = Some(1)

\* C3: strokes is the sum of strokes over the first holes that have strokes,
\* toPar is that sum minus the par of all first holes, played or not; both
\* are undefined when no first hole has strokes.
C3_StrokesAndToPar ==
    Summarized =>
        LET s == summary[1]
            played == {i \in FirstHoles : Played(i)}
            total == SumOver([i \in played |-> round.holes[i].strokes[1]], played)
            par == SumOver([i \in FirstHoles |-> round.holes[i].par], FirstHoles)
        IN  IF played = {}
            THEN s.strokes = None /\ s.toPar = None
            ELSE s.strokes = Some(total) /\ s.toPar = Some(total - par)

\* C3 witness: a summarized round with both played and unplayed first holes.
C3_Witness ==
    /\ Summarized
    /\ \E i \in FirstHoles : Played(i)
    /\ \E i \in FirstHoles : ~Played(i)
    /\ summary[1].toPar # None
    /\ summary[1].toPar[1] < 0

\* C4: the SD and NPIR eligible holes are the first holes with strokes and
\* par other than 3; sdMade counts those with reachedSD true, npirMade those
\* with reachedSD false or unset; the percentages are made/eligible times
\* 100 rounded to the nearest integer.
C4_SDAndNPIR ==
    Summarized =>
        LET s == summary[1]
            made == {i \in SDHoles : round.holes[i].reachedSD = Some(TRUE)}
            missed == {i \in SDHoles : round.holes[i].reachedSD \in {None, Some(FALSE)}}
        IN  /\ s.sdEligible = Cardinality(SDHoles)
            /\ s.npirEligible = Cardinality(SDHoles)
            /\ s.sdMade = Cardinality(made)
            /\ s.npirMade = Cardinality(missed)
            /\ SDHoles # {} =>
                 /\ s.sdPct # None /\ NearestPct(s.sdPct[1], s.sdMade, s.sdEligible)
                 /\ s.npirPct # None /\ NearestPct(s.npirPct[1], s.npirMade, s.npirEligible)
            /\ (s.sdEligible = 1 /\ s.sdMade = 1) =>
                 /\ s.sdPct = Some(100)
                 /\ s.npirEligible = 1 /\ s.npirMade = 0 /\ s.npirPct = Some(0)

\* C4 witness: three eligible holes, two of them reached, one unset or
\* missed: 67 % and 33 %.
C4_Witness ==
    /\ Summarized
    /\ summary[1].sdEligible = 3
    /\ summary[1].sdMade = 2
    /\ summary[1].sdPct = Some(67)
    /\ summary[1].npirPct = Some(33)
    /\ \E i \in SDHoles : round.holes[i].reachedSD = None

\* the loss of the hole at position i, in tenths
HoleLoss(i) == holeStrokesLost(round.holes[i], round.weights)

\* the round with only its played first holes kept
PlayedOnly ==
    [round EXCEPT
        !.holes = SelectSeq(SubSeq(round.holes, 1, Cardinality(FirstHoles)),
                            LAMBDA h : h.strokes # None),
        !.holesCount = Cardinality({i \in FirstHoles : Played(i)})]

\* C5: a hole without strokes adds nothing to strokes, the stroke total of
\* toPar, sdEligible/sdMade, npirEligible/npirMade and p3Eligible/p3Made,
\* but its oopsies and putts still count: strokesLostTotal is round1 of the
\* sum of holeStrokesLost over all first holes, puttsLostTotal the sum of
\* puttingLost over them, avgPutts the mean of the putts entered on them.
C5_UnplayedHolesStillLose ==
    Summarized =>
        LET s == summary[1]
            p == computeRoundSummary(PlayedOnly)
            unplayedPar == SumOver([i \in FirstHoles |-> IF Played(i) THEN 0 ELSE round.holes[i].par],
                                   FirstHoles)
            putts == SumOver([i \in PuttedHoles |-> round.holes[i].putts[1]], PuttedHoles)
        IN  /\ s.strokes = p.strokes
            /\ s.toPar # None => s.toPar[1] + unplayedPar = p.toPar[1]
            /\ s.sdEligible = p.sdEligible /\ s.sdMade = p.sdMade
            /\ s.npirEligible = p.npirEligible /\ s.npirMade = p.npirMade
            /\ s.p3Eligible = p.p3Eligible /\ s.p3Made = p.p3Made
            /\ s.strokesLostTotal =
                 round1(SumOver([i \in FirstHoles |-> HoleLoss(i)], FirstHoles), 10)
            /\ s.puttsLostTotal =
                 10 * SumOver([i \in PuttedHoles |-> puttingLost(round.holes[i].putts)], PuttedHoles)
            /\ PuttedHoles # {} => s.avgPutts = Some(round1(putts, Cardinality(PuttedHoles)))

\* C5 witness: an unplayed first hole with oopsies and more than two putts
\* beside a played hole without any loss: the summary still shows the loss.
C5_Witness ==
    /\ Summarized
    /\ \E i \in FirstHoles :
          /\ ~Played(i)
          /\ round.holes[i].oopsies.lostBall > 0
          /\ round.holes[i].putts = Some(4)
    /\ \E i \in FirstHoles : Played(i) /\ HoleLoss(i) = 0
    /\ summary[1].strokes # None
    /\ summary[1].strokesLostTotal > 0
    /\ summary[1].puttsLostTotal > 0

\* the round with the holes past holesCount replaced by the given holes
WithTail(tail) ==
    [round EXCEPT !.holes = SubSeq(@, 1, Cardinality(FirstHoles)) \o tail]

\* replacement tails: none, nine holes played with putts, tee shot and
\* oopsies, or one par 3 with missed short putts
Tails ==
    LET first == Cardinality(FirstHoles)
        busy == [Untouched EXCEPT !.strokes = Some(6), !.putts = Some(3),
                                  !.reachedSD = Some(TRUE),
                                  !.teeShotResult = Some("fairway"),
                                  !.oopsies = [lostBall |-> 1, bunker |-> 0, duffed |-> 1]]
        short == [Untouched EXCEPT !.par = 3, !.putts = Some(2), !.missedPutts6ft = Some(2)]
    IN  {<<>>,
         [k \in 1..9 |-> HoleOfKind(first + k, busy, k)],
         <<HoleOfKind(first + 1, short, 1)>>}

\* C6: the summary depends only on level, weights, holesCount and the first
\* holesCount holes: replacing the holes past holesCount changes nothing.
C6_OnlyFirstHolesCount ==
    Summarized => \A tail \in Tails : computeRoundSummary(WithTail(tail)) = summary[1]

\* C6 witness: a summarized 9-hole round that still stores 18 holes, with
\* strokes entered on the holes past the ninth.
C6_Witness ==
    /\ Summarized
    /\ round.holesCount = 9
    /\ Len(round.holes) = 18
    /\ \A i \in 10..18 : round.holes[i].strokes # None /\ round.holes[i].par = 5
    /\ \E i \in FirstHoles : ~Played(i)

\* the expected allowedShotsToSD of a par 4 or par 5
ExpectedAllowed(level, strokeIndex) ==
    CASE level = "Scratch" -> 1
      [] level = "Bogey Golf" -> 2
      [] level = "Break 80" -> IF strokeIndex >= 10 THEN 1 ELSE 2

\* C8: allowedShotsToSD is null exactly on par 3 holes, at every level; on a
\* par 4 or 5 it is 1 for Scratch, 2 for Bogey Golf, and for Break 80 it is
\* 1 when strokeIndex >= 10 and 2 when strokeIndex <= 9.
C8_AllowedShotsToSD ==
    \A i \in 1..Len(round.holes) : \A level \in Levels :
        LET h == round.holes[i]
            allow == allowedShotsToSD(level, h)
        IN  /\ (allow = None) <=> (h.par = 3)
            /\ h.par # 3 => allow = Some(ExpectedAllowed(level, h.strokeIndex))

\* C8 witness: a summarized Break 80 round whose first hole is a par 5 with
\* stroke index 10, allowed one shot.
C8_Witness ==
    /\ Summarized
    /\ round.level = "Break 80"
    /\ round.holes[1].par = 5
    /\ round.holes[1].strokeIndex = 10
    /\ allowedShotsToSD(round.level, round.holes[1]) = Some(1)

\* C9: targetAfterSD is 4 on a par 3 with strokeIndex <= 9, 3 on a par 3
\* with strokeIndex >= 10, and 3 on every par 4 or par 5.
C9_TargetAfterSD ==
    \A i \in 1..Len(round.holes) :
        LET h == round.holes[i]
            tgt == targetAfterSD(h)
        IN  /\ (h.par = 3 /\ h.strokeIndex <= 9) => tgt = 4
            /\ (h.par = 3 /\ h.strokeIndex >= 10) => tgt = 3
            /\ h.par \in {4, 5} => tgt = 3

\* C9 witness: a summarized round whose first hole is a par 3 with stroke
\* index 9, target 4.
C9_Witness ==
    /\ Summarized
    /\ round.holes[1].par = 3
    /\ round.holes[1].strokeIndex = 9
    /\ targetAfterSD(round.holes[1]) = 4

\* C10: par3Equivalent is undefined without strokes; on a par 3 it is true
\* iff strokes <= targetAfterSD; on a par 4 or 5 it is true iff
\* strokes - allowedShotsToSD <= targetAfterSD (Scratch, par 4, stroke index
\* 5, 5 strokes: false).
C10_Par3Equivalent ==
    /\ \A i \in 1..Len(round.holes) : \A level \in Levels :
        LET h == round.holes[i]
            p3 == par3Equivalent(level, h)
        IN  /\ h.strokes = None => p3 = None
            /\ (h.strokes # None /\ h.par = 3) =>
                 p3 = Some(h.strokes[1] <= targetAfterSD(h))
            /\ (h.strokes # None /\ h.par # 3) =>
                 p3 = Some(h.strokes[1] - allowedShotsToSD(level, h)[1] <= targetAfterSD(h))
    /\ LET h == round.holes[1]
       IN  (h.par = 4 /\ h.strokeIndex = 5 /\ h.strokes = Some(5)) =>
               par3Equivalent("Scratch", h) = Some(FALSE)

\* C10 witness: the summarized Scratch round whose only played hole is a
\* par 4 with stroke index 5 taken in 5 strokes: eligible, not made.
C10_Witness ==
    /\ Summarized
    /\ round.level = "Scratch"
    /\ round.holes[1].par = 4
    /\ round.holes[1].strokeIndex = 5
    /\ round.holes[1].strokes = Some(5)
    /\ summary[1].p3Eligible = 1
    /\ summary[1].p3Made = 0

----
(* Properties of the per-hole helpers, over the rounds of HoleSpec         *)

\* x tenths is the amount of the given hundredths rounded to one decimal,
\* halves upwards
IsRound1(x, hundredths) ==
    /\ 10 * x - 5 <= hundredths
    /\ hundredths < 10 * x + 5

\* the hole with one more of the given kind of oopsie
OneMore(h, key) == [h EXCEPT !.oopsies[key] = @ + 1]

\* C11: holeStrokesLost is lostBall*2 + bunker*weights.bunker +
\* duffed*weights.duffed + puttingLost(putts) rounded to one decimal; it
\* does not depend on strokes, par, strokeIndex, reachedSD or
\* missedPutts6ft; one more lost ball costs exactly 2 under any weights
\* (par 5, one lost ball, 4 putts: 4).
C11_HoleStrokesLost ==
    LET h == round.holes[1]
        w == round.weights
        putt == IF h.putts # None /\ h.putts[1] > 2 THEN h.putts[1] - 2 ELSE 0
        amount == h.oopsies.lostBall * 200 + h.oopsies.bunker * w.bunker
                  + h.oopsies.duffed * w.duffed + putt * 100
    IN  /\ IsRound1(holeStrokesLost(h, w), amount)
        /\ \A p \in Pars, si \in {1, 18}, s \in {None, Some(6)}, sd \in OptBool,
              m \in {None, Some(2)} :
               holeStrokesLost([h EXCEPT !.par = p, !.strokeIndex = si, !.strokes = s,
                                         !.reachedSD = sd, !.missedPutts6ft = m], w)
                 = holeStrokesLost(h, w)
        /\ \A w2 \in LossWeights :
               holeStrokesLost(OneMore(h, "lostBall"), w2) = holeStrokesLost(h, w2) + 20
        /\ (h.par = 5 /\ h.putts = Some(4)
            /\ h.oopsies = [lostBall |-> 1, bunker |-> 0, duffed |-> 0]) =>
               holeStrokesLost(h, w) = 40

\* C11 witness: the summarized round, under weights other than the default,
\* whose only edited hole is a par 5 with one lost ball and 4 putts: 4.0
\* strokes lost in the round.
C11_Witness ==
    /\ Summarized
    /\ round.weights # DefaultWeights
    /\ round.holes[1].par = 5
    /\ round.holes[1].putts = Some(4)
    /\ round.holes[1].oopsies = [lostBall |-> 1, bunker |-> 0, duffed |-> 0]
    /\ summary[1].strokesLostTotal = 40

\* holeStrokesLost does not decrease when one of lostBall, bunker, duffed or
\* putts of the first hole grows by one (or putts goes from absent to zero)
MonotoneAtFirstHole ==
    LET h == round.holes[1]
        w == round.weights
        loss == holeStrokesLost(h, w)
    IN  /\ \A key \in {"lostBall", "bunker", "duffed"} :
               holeStrokesLost(OneMore(h, key), w) >= loss
        /\ h.putts # None =>
               holeStrokesLost([h EXCEPT !.putts = Some(h.putts[1] + 1)], w) >= loss
        /\ h.putts = None =>
               holeStrokesLost([h EXCEPT !.putts = Some(0)], w) >= loss

C13_PuttingLost ==
    LET putts == round.holes[1].putts
    IN  /\ putts = None => puttingLost(putts) = 0
        /\ putts # None =>
               puttingLost(putts) = (IF putts[1] >= 2 THEN putts[1] - 2 ELSE 0)
        /\ puttingLost(putts) >= 0

\* C13 witness: a summarized round whose first hole was holed with a single
\* putt: nothing lost on putting.
C13_Witness ==
    /\ Summarized
    /\ round.holes[1].putts = Some(1)
    /\ puttingLost(round.holes[1].putts) = 0
    /\ summary[1].puttsLostTotal = 0

\* C14: goalScore is par for Scratch, par + 1 for Bogey Golf, and for
\* Break 80 it is par + 1 when strokeIndex >= 10 and par when
\* strokeIndex <= 9.
C14_GoalScore ==
    LET h == round.holes[1]
    IN  /\ goalScore("Scratch", h.par, h.strokeIndex) = h.par
        /\ goalScore("Bogey Golf", h.par, h.strokeIndex) = h.par + 1
        /\ h.strokeIndex >= 10 => goalScore("Break 80", h.par, h.strokeIndex) = h.par + 1
        /\ h.strokeIndex <= 9 => goalScore("Break 80", h.par, h.strokeIndex) = h.par

\* C14 witness: a summarized Break 80 round whose first hole is a par 4 with
\* stroke index 10: the goal is 5.
C14_Witness ==
    /\ Summarized
    /\ round.level = "Break 80"
    /\ round.holes[1].par = 4
    /\ round.holes[1].strokeIndex = 10
    /\ goalScore(round.level, round.holes[1].par, round.holes[1].strokeIndex) = 5

----
(* Properties of the templates, the hole count and the storage, over the   *)
(* behaviours of HomeSpec                                                  *)

\* the level, scoring distance and weights a new round can be based on
Bases ==
    {[level |-> "Bogey Golf", scoringDistance |-> 125, weights |-> DefaultWeights],
     [level |-> "Scratch", scoringDistance |-> 100, weights |-> [bunker |-> 25, duffed |-> 150]]}

\* every entry field of the hole is empty
EntriesCleared(h) ==
    /\ h.strokes = None
    /\ h.putts = None
    /\ h.missedPutts6ft = None
    /\ h.reachedSD = None
    /\ h.oopsies = [lostBall |-> 0, bunker |-> 0, duffed |-> 0]

\* the two holes agree on par, stroke index and every entry field
SameHoleData(a, b) ==
    /\ a.par = b.par
    /\ a.strokeIndex = b.strokeIndex
    /\ a.strokes = b.strokes
    /\ a.putts = b.putts
    /\ a.missedPutts6ft = b.missedPutts6ft
    /\ a.reachedSD = b.reachedSD
    /\ a.oopsies = b.oopsies

\* C15: applyTemplateToNewRound(templateFromRound(round, name), base) has
\* the par and strokeIndex of round at every position below
\* round.holesCount, and every hole of the result has its entry fields
\* cleared, for every base.
C15_TemplateRoundTrip ==
    \A base \in Bases :
        LET res == applyTemplateToNewRound(templateFromRound(round, "X", 1), base)
        IN  /\ \A k \in 1..round.holesCount :
                 k <= Len(round.holes) =>
                    /\ k <= Len(res.holes)
                    /\ res.holes[k].par = round.holes[k].par
                    /\ res.holes[k].strokeIndex = round.holes[k].strokeIndex
            /\ \A k \in 1..Len(res.holes) : EntriesCleared(res.holes[k])

\* C15 witness: the page saved its round, whose first hole was made a par
\* 5, as a template and loaded that template: the round shown is the round
\* trip of itself and still has the par 5.
C15_Witness ==
    /\ courseId = Some(1)
    /\ Len(templates) = 1
    /\ round.holes[1].par = 5
    /\ round = applyTemplateToNewRound(templateFromRound(round, "Home", 1),
                                       [level |-> round.level,
                                        scoringDistance |-> round.scoringDistance,
                                        weights |-> round.weights])

C17_ApplyTemplate ==
    \A base \in Bases : \A i \in 1..Len(courses) :
        LET template == fetchTemplates(courses)[i]
            res == applyTemplateToNewRound(template, base)
        IN  /\ res.holesCount = template.holesCount
            /\ Len(res.holes) = template.holesCount
            /\ res.level = base.level
            /\ res.scoringDistance = base.scoringDistance
            /\ res.weights = base.weights
            /\ \A k \in 1..Len(res.holes) :
                 /\ res.holes[k].n = k
                 /\ EntriesCleared(res.holes[k])
                 /\ k <= Len(template.holes) =>
                      /\ res.holes[k].par = template.holes[k].par
                      /\ res.holes[k].strokeIndex = template.holes[k].strokeIndex
                 /\ k > Len(template.holes) =>
                      /\ res.holes[k].par = 4
                      /\ res.holes[k].strokeIndex = k

\* C17 witness: a template stored for a 9-hole round without its holes was
\* loaded: the round shown has nine default holes.
C17_Witness ==
    /\ courseId = Some(1)
    /\ Len(templates) = 1
    /\ templates[1].holesCount = 9
    /\ templates[1].holes = <<>>
    /\ round.holesCount = 9
    /\ round.holes = makeDefaultHoles(9)

\* C19: toggling between 9 and 18 holes does not discard the other nine:
\* when setHolesCount(18) follows setHolesCount(9), holes 10..18 have the
\* par, strokeIndex and entry fields they had before the round was cut to
\* nine; and round.holes always has at least holesCount entries.
C19_ToggleKeepsOtherNine ==
    [][/\ (setHolesCount(18) /\ shelved # None) =>
            \A k \in 10..18 : SameHoleData(round'.holes[k], shelved[1][k])
       /\ Len(round'.holes) >= round'.holesCount]_vars

\* the first holesCount holes of r come back with the same data
LoadedAsWritten(r, loaded) ==
    \A k \in 1..r.holesCount :
        /\ k <= Len(loaded.holes)
        /\ SameHoleData(r.holes[k], loaded.holes[k])

\* C20: storing a round and loading it back is lossless for hole data: when
\* the page has written its round with createRound or upsertRound,
\* fetchRoundById, and fetchLatestRound when that round is the latest,
\* return the par, strokeIndex, strokes, putts, missedPutts6ft, reachedSD
\* and oopsies of each of the first holesCount holes.
C20_PersistLoadLossless ==
    [][(autosave \/ newRoundKeepCourse \/ (openLatest /\ db' # db)) =>
          /\ LoadedAsWritten(round', fetchRoundById(db', roundId'[1]).round)
          /\ roundId'[1] = Len(db') => LoadedAsWritten(round', fetchLatestRound(db').round)]_vars

----
(* Properties of the tallies of the summary, over the rounds of TallySpec  *)

\* first holes with a positive count of missed short putts
MissedHoles ==
    {i \in FirstHoles : round.holes[i].missedPutts6ft # None
                        /\ round.holes[i].missedPutts6ft[1] > 0}

\* the round with every missedPutts6ft erased
WithoutMissedPutts ==
    [round EXCEPT !.holes = [k \in 1..Len(@) |-> [@[k] EXCEPT !.missedPutts6ft = None]]]

\* C21: missedPutts6ftTotal is the sum of missedPutts6ft over the first
\* holes where it is present and positive, with or without putts;
\* missedPutts6ftPct is 100 * (such holes that have putts) / (holes with
\* putts), rounded; missedPutts6ft changes neither holeStrokesLost nor
\* strokesLostTotal.
C21_MissedPutts ==
    Summarized =>
        LET s == summary[1]
            both == MissedHoles \cap PuttedHoles
        IN  /\ s.missedPutts6ftTotal =
                 SumOver([i \in MissedHoles |-> round.holes[i].missedPutts6ft[1]], MissedHoles)
            /\ PuttedHoles # {} =>
                 /\ s.missedPutts6ftPct # None
                 /\ NearestPct(s.missedPutts6ftPct[1], Cardinality(both),
                               Cardinality(PuttedHoles))
            /\ \A i \in FirstHoles :
                 holeStrokesLost(round.holes[i], round.weights)
                   = holeStrokesLost([round.holes[i] EXCEPT !.missedPutts6ft = None],
                                     round.weights)
            /\ computeRoundSummary(WithoutMissedPutts).strokesLostTotal = s.strokesLostTotal

\* C21 witness: a summarized round where missed short putts were entered on
\* a hole without putts and on a hole with putts: both count in the total,
\* only the second in the percentage.
C21_Witness ==
    /\ Summarized
    /\ \E i \in MissedHoles : round.holes[i].putts = None
    /\ \E i \in MissedHoles : round.holes[i].putts # None
    /\ summary[1].missedPutts6ftTotal >= 3
    /\ summary[1].missedPutts6ftPct = Some(100)

\* first par 4 and par 5 holes with the given tee shot result
TeeShots(shot) ==
    {i \in FirstHoles : round.holes[i].par # 3 /\ round.holes[i].teeShotResult = Some(shot)}

\* C22: teeShotsFairwayTotal and teeShotsTroubleTotal count the first holes
\* of par 4 or 5 with teeShotResult 'fairway' and 'trouble', with or
\* without strokes; a hole without teeShotResult and a par 3 with one add to
\* neither; without tee-shot data both are 0 and teeShotsFairwayPct is
\* undefined.
C22_TeeShots ==
    Summarized =>
        LET s == summary[1]
        IN  /\ s.teeShotsFairwayTotal = Cardinality(TeeShots("fairway"))
            /\ s.teeShotsTroubleTotal = Cardinality(TeeShots("trouble"))
            /\ (\A i \in FirstHoles : round.holes[i].teeShotResult = None) =>
                 /\ s.teeShotsFairwayTotal = 0
                 /\ s.teeShotsTroubleTotal = 0
                 /\ s.teeShotsFairwayPct = None

\* C22 witness: a summarized round with a tee shot entered on par 3s and on
\* unplayed par 4s: only the par 4s count.
C22_Witness ==
    /\ Summarized
    /\ \E i \in FirstHoles : round.holes[i].par = 3 /\ round.holes[i].teeShotResult # None
    /\ \E i \in TeeShots("fairway") : ~Played(i)
    /\ summary[1].teeShotsFairwayTotal = Cardinality(TeeShots("fairway"))
    /\ summary[1].teeShotsTroubleTotal = 0
    /\ summary[1].teeShotsFairwayPct = Some(100)

\* C29: sdEligible = npirEligible and sdMade + npirMade = sdEligible; sdPct
\* and npirPct are both undefined or both defined, and when defined their
\* sum is 100 or 101.
C29_NpirComplement ==
    Summarized =>
        LET s == summary[1]
        IN  /\ s.sdEligible = s.npirEligible
            /\ s.sdMade + s.npirMade = s.sdEligible
            /\ (s.sdPct = None) <=> (s.npirPct = None)
            /\ s.sdPct # None => s.sdPct[1] + s.npirPct[1] \in {100, 101}

\* C29 witness: a summarized round with eight eligible holes, one of them
\* made: 13 % and 88 %, 101 together.
C29_Witness ==
    /\ Summarized
    /\ summary[1].sdEligible = 8
    /\ summary[1].sdMade = 1
    /\ summary[1].sdPct = Some(13)
    /\ summary[1].npirPct = Some(88)

\* C30: p3Eligible is the number of first holes that have strokes, since
\* par3Equivalent is defined on every hole with strokes; p3Pct is defined
\* exactly when strokes is; 0 <= p3Made <= p3Eligible <= holesCount and
\* 0 <= sdMade <= sdEligible <= p3Eligible.
C30_P3Eligible ==
    Summarized =>
        LET s == summary[1]
        IN  /\ s.p3Eligible = Cardinality({i \in FirstHoles : Played(i)})
            /\ \A i \in FirstHoles :
                 Played(i) => par3Equivalent(round.level, round.holes[i]) # None
            /\ (s.p3Pct # None) <=> (s.strokes # None)
            /\ 0 <= s.p3Made
            /\ s.p3Made <= s.p3Eligible
            /\ s.p3Eligible <= round.holesCount
            /\ 0 <= s.sdMade
            /\ s.sdMade <= s.sdEligible
            /\ s.sdEligible <= s.p3Eligible

\* C30 witness: a summarized round with played par 3s, played par 4s and
\* unplayed holes: every played hole is eligible, the par 3s not for SD.
C30_Witness ==
    /\ Summarized
    /\ \E i \in FirstHoles : Played(i) /\ round.holes[i].par = 3
    /\ \E i \in FirstHoles : ~Played(i)
    /\ summary[1].p3Eligible = 5
    /\ summary[1].sdEligible = 3
    /\ summary[1].p3Pct # None

----
(* Properties of the page, over the behaviours of HomeSpec                 *)

\* the load effect runs: the page is opened on a round or on the latest one
PageLoad == openLatest \/ \E id \in 1..Len(db) : openRound(id)

\* C23: once isCompleted is true the round is frozen: setLevel,
\* setHolesCount, updateHole, updateOops and loadTemplate change neither the
\* round nor courseId; only newRoundKeepCourse (or opening the page again)
\* replaces the round, and newRoundKeepCourse sets isCompleted to false.
C23_CompletedIsFrozen ==
    [][isCompleted =>
         /\ (~newRoundKeepCourse /\ ~PageLoad) => (round' = round /\ courseId' = courseId)
         /\ newRoundKeepCourse => (round' = resetRoundKeepCourse(round) /\ ~isCompleted')]_vars

\* C23 witness: the page shows a finished round that has an entry, the round
\* row being marked completed.
C23_Witness ==
    /\ isCompleted
    /\ hydrated
    /\ roundId # None
    /\ db[roundId[1]].completed
    /\ \E i \in FirstHoles : Played(i)

----
(* Properties of the autosave, over the behaviours of SaveSpec             *)

\* the page edits a loaded, unfinished round and nothing is pending: no
\* timeout, no call of upsertRound in flight, no finishRound
Settled ==
    /\ hydrated
    /\ roundId # None
    /\ ~isCompleted
    /\ ~finishing
    /\ ~db[roundId[1]].completed
    /\ timers = {}
    /\ saves = <<>>

\* C24: the autosave is last-write-wins: once the user has stopped editing
\* a hydrated, unfinished round and every upsertRound started has returned
\* without error, the stored hole rows are those of the round in memory,
\* also when an earlier upsertRound was still writing its holes when a later
\* one started.
C24_LastWriteWins ==
    Settled =>
        \A k \in 1..round.holesCount :
            k <= Len(round.holes) =>
                db[roundId[1]].rows[round.holes[k].n] = Some(HoleRow(round.holes[k]))

\* the values the callback of a timeout holds are those the page shows
HoldsPage(t) ==
    /\ roundId # None
    /\ t.roundId = roundId[1]
    /\ t.round = round
    /\ t.courseId = courseId

\* C25: the autosave is debounced with a single timer: at most one timeout
\* is pending; a change of round, roundId, courseId or isCompleted cancels
\* the pending timeout before a new one is set; a burst of edits, none
\* followed by the firing of its timeout but the last, starts one
\* upsertRound, which carries the round of the last edit.
C25_Debounced ==
    [][/\ Cardinality(timers') <= 1
       /\ (round' # round \/ roundId' # roundId \/ courseId' # courseId
                          \/ isCompleted' # isCompleted) =>
             /\ timers \cap timers' = {}
             /\ \A t \in timers' : t.round = round' /\ t.roundId = roundId'[1]
                                   /\ t.courseId = courseId'
             /\ Armed(hydrated', roundId', isCompleted') => Cardinality(timers') = 1
       /\ \A t \in timers :
             timerFires(t) =>
                /\ HoldsPage(t)
                /\ timers' = {}
                /\ Len(saves') = Len(saves) + 1
                /\ saves'[Len(saves')].round = round]_vars

\* C25 witness: two edits were made one after the other, then the timeout
\* fired: one upsertRound is in flight, with the round of the second edit,
\* and no timeout is pending.
C25_Witness ==
    /\ edits = 2
    /\ timers = {}
    /\ Len(saves) = 1
    /\ saves[1].next = 0
    /\ saves[1].round = round
    /\ round.holes[1].par = 5
    /\ round.holes[1].strokes = Some(5)
    /\ db[1].rows[1][1].par = 4

\* C26: no autosave reaches a finished round: under every interleaving of
\* edits, the timeout and finishRound, no upsertRound is started for a
\* round after it was marked completed in the database, and none before the
\* load has hydrated the page and set a roundId.
C26_NoSaveAfterFinish ==
    [][\A t \in timers :
          timerFires(t) =>
             /\ hydrated
             /\ roundId # None
             /\ ~db[t.roundId].completed]_vars

----
(* Properties of ensureUsername, over the behaviours of NameFairSpec       *)

\* the candidates the call has dealt with: those skipped or refused as
\* duplicates, and the one whose write ended the call
Attempted ==
    tries + (IF \E k \in 1..Len(upserts) : upserts[k].answer # "duplicate" THEN 1 ELSE 0)

\* C28: ensureUsername terminates after at most 12 candidates: it returns
\* the existing username without writing when the profile has one;
\* otherwise it skips a candidate that exists or whose write fails with a
\* duplicate error, returns the first candidate whose upsert succeeds,
\* throws at once on any other write error, and throws 'Could not generate
\* a unique username' when all 12 attempts fail.
C28_EnsureUsername ==
    /\ [](/\ Attempted <= 12
          /\ Len(upserts) <= Attempted
          /\ (result # None) <=> (pc = "done")
          /\ \A k \in 1..Len(upserts) :
                /\ upserts[k].answer = "ok" =>
                      k = Len(upserts) /\ result = Return(upserts[k].candidate)
                                       /\ profile = Some(upserts[k].candidate)
                /\ upserts[k].answer = "other" =>
                      k = Len(upserts) /\ result = Throw("write error")
                /\ \A j \in 1..(k - 1) : upserts[j].answer = "duplicate"
          /\ (profile = Some(0) /\ pc = "done") =>
                /\ upserts = <<>> /\ tries = 0
                /\ result \in {Return(0), Throw("read error"),
                               Throw("Supabase client not initialized.")}
          /\ (result # None /\ result[1].kind = "return") => profile = Some(result[1].value)
          /\ result = Throw("Could not generate a unique username") <=>
                (pc = "done" /\ tries = 12)
          /\ (pc = "done" /\ tries < 12 /\ tries > 0) =>
                result \in {Return(tries + 1), Throw("write error")})
    /\ <>(pc = "done")

\* C28 witness: the call returned its fifth candidate: two were found to
\* exist, two were refused as duplicates, the fifth was written.
C28_Witness ==
    /\ pc = "done"
    /\ tries = 4
    /\ Len(upserts) = 3
    /\ upserts[3].answer = "ok"
    /\ result = Return(5)
    /\ profile = Some(5)

====
